---- MODULE Spec2Model ----
(***************************************************************************)
(* Model of the invoice aggregator of src/main.py (aggregate_sales).       *)
(*                                                                         *)
(* Decoded JSON values are tagged records.  Money is an exact integer      *)
(* number of currency units during accumulation; the summary carries       *)
(* monetary fields in hundredths of a unit (the result of round(x, 2)).    *)
(***************************************************************************)
EXTENDS Integers, Sequences, FiniteSets, TLC

MaxSales == 2
MaxItems == 2

(***************************************************************************)
(* Decoded JSON scalars.  Missing stands for an absent key of a mapping.   *)
(***************************************************************************)
Missing == [t |-> "missing", n |-> 0, s |-> ""]
Null == [t |-> "null", n |-> 0, s |-> ""]
Num(k) == [t |-> "num", n |-> k, s |-> ""]
Bool(b) == [t |-> "bool", n |-> IF b THEN 1 ELSE 0, s |-> ""]
Str(x) == [t |-> "str", n |-> 0, s |-> x]
\* the mapping {"$numberDecimal": x}
Dec(x) == [t |-> "dec", n |-> 0, s |-> x]
\* an integer literal beyond the range of a float (1 followed by 400 zeros)
Huge == [t |-> "huge", n |-> 0, s |-> ""]

\* an item mapping, and a non-mapping element of an items list
Item(name, price, quantity) ==
    [t |-> "dict", n |-> 0, name |-> name, price |-> price, quantity |-> quantity]
NonMappingItem(k) ==
    [t |-> "num", n |-> k, name |-> Missing, price |-> Missing, quantity |-> Missing]

\* the value under the key "items" of a sale record
NoItems == [t |-> "missing", v |-> <<>>]
NullItems == [t |-> "null", v |-> <<>>]
NumItems == [t |-> "num", v |-> <<>>]
ItemList(s) == [t |-> "list", v |-> s]

\* a sale mapping, and non-mapping elements of the sales list
Sale(items, store, method, coupon) ==
    [t |-> "dict", n |-> 0, items |-> items, storeLocation |-> store,
     purchaseMethod |-> method, couponUsed |-> coupon]
NonMappingSale(x) ==
    [t |-> x.t, n |-> x.n, items |-> NoItems, storeLocation |-> Missing,
     purchaseMethod |-> Missing, couponUsed |-> Missing]

\* the decoded request body
SalesList(s) == [t |-> "list", v |-> s]
NotAList(tag) == [t |-> tag, v |-> <<>>]

(***************************************************************************)
(* Python primitives used by the handler.                                  *)
(***************************************************************************)
Ok(v) == [exc |-> "", v |-> v, big |-> FALSE]
Exc(e) == [exc |-> e, v |-> 0, big |-> FALSE]

\* mapping.get(key, default)
Get(x, default) == IF x.t = "missing" THEN default ELSE x

\* truth value of a scalar (mapping.get(key) yields None for an absent key)
Truthy(x) ==
    CASE x.t \in {"missing", "null"} -> FALSE
      [] x.t \in {"num", "bool"} -> x.n # 0
      [] x.t = "str" -> x.s # ""
      [] OTHER -> TRUE

\* numeric strings the model reads; any other string does not parse
DecimalLiterals == <<"0", "1", "2", "3">>
IsNumeric(s) == \E k \in 1..Len(DecimalLiterals) : DecimalLiterals[k] = s
ParseDecimal(s) == (CHOOSE k \in 1..Len(DecimalLiterals) : DecimalLiterals[k] = s) - 1

\* float(x)
float(x) ==
    CASE x.t \in {"num", "bool"} -> Ok(x.n)
      [] x.t = "str" -> IF IsNumeric(x.s) THEN Ok(ParseDecimal(x.s)) ELSE Exc("ValueError")
      [] x.t = "huge" -> Exc("OverflowError")
      [] OTHER -> Exc("TypeError")

\* int(x)
int(x) ==
    CASE x.t \in {"num", "bool"} -> Ok(x.n)
      [] x.t = "str" -> IF IsNumeric(x.s) THEN Ok(ParseDecimal(x.s)) ELSE Exc("ValueError")
      [] x.t = "huge" -> [exc |-> "", v |-> 0, big |-> TRUE]
      [] OTHER -> Exc("TypeError")

\* a mapping is not hashable and cannot be a dictionary key
Hashable(x) == x.t # "dec"

\* round(num / den, 2), in hundredths (round half to even)
Round2(num, den) ==
    LET q == (100 * num) \div den
        r == (100 * num) % den
    IN  IF 2 * r < den THEN q
        ELSE IF 2 * r > den THEN q + 1
        ELSE IF q % 2 = 0 THEN q ELSE q + 1

(***************************************************************************)
(* defaultdict(float): entries [k, v] in insertion order.                  *)
(***************************************************************************)
HasKey(d, key) == \E j \in 1..Len(d) : d[j].k = key
Lookup(d, key) == IF HasKey(d, key) THEN d[CHOOSE j \in 1..Len(d) : d[j].k = key].v ELSE 0
\* d[key] += amount
AddTo(d, key, amount) ==
    IF HasKey(d, key)
    THEN [j \in 1..Len(d) |-> IF d[j].k = key THEN [k |-> key, v |-> d[j].v + amount] ELSE d[j]]
    ELSE Append(d, [k |-> key, v |-> amount])

(***************************************************************************)
(* The aggregation loop of aggregate_sales.                                *)
(***************************************************************************)
\* the exceptions the try block around the price and quantity parse catches
Caught(e) == e \in {"TypeError", "ValueError"}

Raised(e) == [exc |-> e, sale_total |-> 0, item_revenue |-> <<>>]

\* for item in sale.get("items", []): ... over the items not yet visited
RECURSIVE ItemsLoop(_, _, _)
ItemsLoop(items, sale_total, item_revenue) ==
    IF items = <<>>
    THEN [exc |-> "", sale_total |-> sale_total, item_revenue |-> item_revenue]
    ELSE LET item == Head(items)
             price == float(Get(item.price, Num(0)))
             quantity == int(Get(item.quantity, Num(0)))
             name == Get(item.name, Str("unknown"))
             revenue == price.v * quantity.v
         IN  IF item.t # "dict" THEN Raised("AttributeError")
             ELSE IF price.exc # ""
             THEN IF Caught(price.exc)
                  THEN ItemsLoop(Tail(items), sale_total, item_revenue)
                  ELSE Raised(price.exc)
             ELSE IF quantity.exc # ""
             THEN IF Caught(quantity.exc)
                  THEN ItemsLoop(Tail(items), sale_total, item_revenue)
                  ELSE Raised(quantity.exc)
             ELSE IF quantity.big THEN Raised("OverflowError")
             ELSE IF ~Hashable(name) THEN Raised("TypeError")
             ELSE ItemsLoop(Tail(items), sale_total + revenue,
                            AddTo(item_revenue, name, revenue))

\* not sale
SaleIsFalsy(sale) ==
    CASE sale.t = "null" -> TRUE
      [] sale.t \in {"num", "bool"} -> sale.n = 0
      [] sale.t = "dict" -> /\ sale.items.t = "missing"
                            /\ sale.storeLocation.t = "missing"
                            /\ sale.purchaseMethod.t = "missing"
                            /\ sale.couponUsed.t = "missing"
      [] OTHER -> FALSE

\* variant: only a negative total is ignored
IgnoredOnlyNegative(sale_total) == sale_total < 0

\* if sale_total <= 0: continue
Ignored(sale_total) == sale_total <= 0

\* variant: the method is compared without regard to case
IsOnlineAnyCase(sale) == sale.purchaseMethod \in {Str("Online"), Str("online")}

\* sale.get("purchaseMethod") == "Online"
IsOnline(sale) == sale.purchaseMethod = Str("Online")

\* sale.get("storeLocation", "unknown")
StoreKey(sale) == Get(sale.storeLocation, Str("unknown"))

NewAcc ==
    [path |-> "", exc |-> "", invoice_count |-> 0, total_sales |-> 0,
     online_sales |-> 0, in_store_sales |-> 0, coupon_orders |-> 0,
     item_revenue |-> <<>>, store_revenue |-> <<>>]

\* one iteration of: for sale in sales
ProcessSale(acc, sale) ==
    IF SaleIsFalsy(sale) THEN [acc EXCEPT !.path = "skip"]
    ELSE IF sale.t # "dict" THEN [acc EXCEPT !.path = "raise", !.exc = "TypeError"]
    ELSE IF sale.items.t = "missing" THEN [acc EXCEPT !.path = "skip"]
    ELSE IF sale.items.t # "list" THEN [acc EXCEPT !.path = "raise", !.exc = "TypeError"]
    ELSE LET r == ItemsLoop(sale.items.v, 0, acc.item_revenue)
             sale_total == r.sale_total
         IN  IF r.exc # "" THEN [acc EXCEPT !.path = "raise", !.exc = r.exc]
             ELSE IF Ignored(sale_total)
             THEN [acc EXCEPT !.path = "ignore", !.item_revenue = r.item_revenue]
             ELSE IF ~Hashable(StoreKey(sale))
             THEN [acc EXCEPT !.path = "raise", !.exc = "TypeError"]
             ELSE [path |-> "count", exc |-> "",
                   invoice_count |-> acc.invoice_count + 1,
                   total_sales |-> acc.total_sales + sale_total,
                   online_sales |-> IF IsOnline(sale) THEN acc.online_sales + sale_total
                                    ELSE acc.online_sales,
                   in_store_sales |-> IF IsOnline(sale) THEN acc.in_store_sales
                                      ELSE acc.in_store_sales + sale_total,
                   coupon_orders |-> IF Truthy(sale.couponUsed) THEN acc.coupon_orders + 1
                                     ELSE acc.coupon_orders,
                   item_revenue |-> r.item_revenue,
                   store_revenue |-> AddTo(acc.store_revenue, StoreKey(sale), sale_total)]

\* for sale in sales: ... until the list ends or an exception propagates
RECURSIVE RunSales(_, _)
RunSales(acc, rest) ==
    IF rest = <<>> THEN acc
    ELSE LET r == ProcessSale(acc, Head(rest))
         IN  IF r.path = "raise" THEN r ELSE RunSales(r, Tail(rest))

(***************************************************************************)
(* Top items, top store and the summary.                                   *)
(***************************************************************************)
\* index of the first entry of d with the largest value
FirstMax(d) == CHOOSE j \in 1..Len(d) :
    /\ \A m \in 1..Len(d) : d[m].v <= d[j].v
    /\ \A m \in 1..(j - 1) : d[m].v < d[j].v

RemoveAt(d, j) == SubSeq(d, 1, j - 1) \o SubSeq(d, j + 1, Len(d))

\* sorted(item_revenue.items(), key=lambda x: x[1], reverse=True): stable
RECURSIVE SortedByRevenue(_)
SortedByRevenue(d) ==
    IF d = <<>> THEN <<>>
    ELSE <<d[FirstMax(d)]>> \o SortedByRevenue(RemoveAt(d, FirstMax(d)))

\* [:3]
TopN == 3
Take(d, n) == SubSeq(d, 1, IF Len(d) < n THEN Len(d) ELSE n)

NotAvailable == Str("data not available")

\* variant: the first store seen is reported
TopStoreFirstSeen(store_revenue) ==
    IF store_revenue # <<>> THEN store_revenue[1].k
    ELSE NotAvailable

\* max(store_revenue, key=store_revenue.get) if store_revenue else sentinel
TopStore(store_revenue) ==
    IF store_revenue # <<>> THEN store_revenue[FirstMax(store_revenue)].k
    ELSE NotAvailable

\* the returned mapping
Summary(acc) ==
    LET top_items == Take(SortedByRevenue(acc.item_revenue), TopN)
    IN  [invoice_count |-> acc.invoice_count,
         total_sales |-> Round2(acc.total_sales, 1),
         average_invoice_value |->
             IF acc.invoice_count > 0 THEN Round2(acc.total_sales, acc.invoice_count)
             ELSE 0,
         online_sales |-> Round2(acc.online_sales, 1),
         in_store_sales |-> Round2(acc.in_store_sales, 1),
         coupon_orders |-> acc.coupon_orders,
         top_store |-> TopStore(acc.store_revenue),
         top_items |-> [j \in 1..Len(top_items) |->
                           [name |-> top_items[j].k,
                            revenue |-> Round2(top_items[j].v, 1)]]]

\* the handler as a function of the decoded body: what it raises or returns
aggregate_sales(body) ==
    IF body.t # "list"
    THEN [pc |-> "raised", error |-> "HTTPException", result |-> <<>>]
    ELSE LET acc == RunSales(NewAcc, body.v)
         IN  IF acc.path = "raise"
             THEN [pc |-> "raised", error |-> acc.exc, result |-> <<>>]
             ELSE [pc |-> "done", error |-> "", result |-> <<Summary(acc)>>]

(***************************************************************************)
(* Request bodies the handler is run on.                                   *)
(***************************************************************************)
BoundedSeq(S, n) == UNION {[1..k -> S] : k \in 0..n}

Widget == Item(Str("a"), Num(2), Num(1))
Gadget == Item(Str("b"), Str("1"), Num(1))

MoneyItems ==
    {Widget,
     Item(Str("c"), Num(0), Num(1)),
     Item(Str("d"), Num(-1), Str("1"))}

ParseItems ==
    {Widget,
     Item(Str("b"), Dec("2"), Num(1)),
     Item(Str("c"), Str("abc"), Num(1)),
     Item(Str("d"), Num(1), Null),
     Item(Str("e"), Num(1), Str("2")),
     Item(Str("f"), Num(3), Num(1)),
     Item(Missing, Bool(TRUE), Num(2)),
     Item(Missing, Huge, Num(1))}

\* sales that carry a store, a purchase method and a coupon flag
TaggedSales ==
    {Sale(ItemList(<<Widget>>), Str("NYC"), Str("Online"), Bool(TRUE)),
     Sale(ItemList(<<Gadget>>), Str("LA"), Str("online"), Str("yes")),
     Sale(ItemList(<<Gadget>>), Null, Str("In store"), Bool(FALSE)),
     Sale(ItemList(<<Widget>>), Str(""), Missing, Missing),
     Sale(ItemList(<<Gadget>>), NotAvailable, Str("Online"), Missing)}

OddSales ==
    {Sale(NoItems, Missing, Missing, Missing),
     Sale(NoItems, Str("NYC"), Missing, Missing),
     NonMappingSale(Null),
     NonMappingSale(Num(5))}

MoneySales ==
    {Sale(ItemList(l), Missing, Missing, Missing) : l \in BoundedSeq(MoneyItems, MaxItems)}
    \cup TaggedSales
    \cup OddSales

ParseSales ==
    {Sale(ItemList(l), Missing, Missing, Missing) : l \in BoundedSeq(ParseItems, MaxItems)}
    \cup {Sale(NullItems, Missing, Missing, Missing),
          Sale(NumItems, Missing, Missing, Missing),
          Sale(ItemList(<<NonMappingItem(5)>>), Missing, Missing, Missing),
          Sale(ItemList(<<Item(Str("a"), Num(1), Huge)>>), Missing, Missing, Missing),
          Sale(ItemList(<<Item(Dec("1"), Num(1), Num(1))>>), Missing, Missing, Missing),
          Sale(ItemList(<<Widget>>), Dec("1"), Missing, Missing)}
    \cup OddSales

Bodies(pool) ==
    {NotAList("dict"), NotAList("null")}
    \cup {SalesList(s) : s \in BoundedSeq(pool, MaxSales)}

(***************************************************************************)
(* One request: the handler's locals and its position.                     *)
(***************************************************************************)
VARIABLES sales, pc, i, invoice_count, total_sales, online_sales,
          in_store_sales, coupon_orders, item_revenue, store_revenue,
          error, result

accs == <<invoice_count, total_sales, online_sales, in_store_sales,
          coupon_orders, item_revenue, store_revenue>>
vars == <<sales, pc, i, invoice_count, total_sales, online_sales,
          in_store_sales, coupon_orders, item_revenue, store_revenue,
          error, result>>

\* the accumulators as one value
Acc ==
    [path |-> "", exc |-> "", invoice_count |-> invoice_count,
     total_sales |-> total_sales, online_sales |-> online_sales,
     in_store_sales |-> in_store_sales, coupon_orders |-> coupon_orders,
     item_revenue |-> item_revenue, store_revenue |-> store_revenue]

Start(bodies) ==
    /\ sales \in bodies
    /\ pc = "start"
    /\ i = 0
    /\ invoice_count = 0
    /\ total_sales = 0
    /\ online_sales = 0
    /\ in_store_sales = 0
    /\ coupon_orders = 0
    /\ item_revenue = <<>>
    /\ store_revenue = <<>>
    /\ error = ""
    /\ result = <<>>

Init == Start(Bodies(MoneySales))
InitParse == Start(Bodies(ParseSales))

\* if not isinstance(sales, list): raise HTTPException(400)
RejectBody ==
    /\ pc = "start"
    /\ sales.t # "list"
    /\ pc' = "raised"
    /\ error' = "HTTPException"
    /\ UNCHANGED <<sales, i, accs, result>>

\* the body is a list: the accumulators are set up and the loop is entered
EnterLoop ==
    /\ pc = "start"
    /\ sales.t = "list"
    /\ pc' = "loop"
    /\ UNCHANGED <<sales, i, accs, error, result>>

\* the sale the loop visits next, and what its iteration does
NextSale == sales.v[i + 1]
Visit == ProcessSale(Acc, NextSale)

\* if not sale or "items" not in sale: continue
SkipSale ==
    /\ pc = "loop"
    /\ i < Len(sales.v)
    /\ Visit.path = "skip"
    /\ i' = i + 1
    /\ UNCHANGED <<sales, pc, accs, error, result>>

\* the items are accumulated, then: if sale_total <= 0: continue
IgnoreSale ==
    /\ pc = "loop"
    /\ i < Len(sales.v)
    /\ Visit.path = "ignore"
    /\ i' = i + 1
    /\ item_revenue' = Visit.item_revenue
    /\ UNCHANGED <<sales, pc, invoice_count, total_sales, online_sales,
                   in_store_sales, coupon_orders, store_revenue, error, result>>

\* the items are accumulated and the sale is counted
CountSale ==
    /\ pc = "loop"
    /\ i < Len(sales.v)
    /\ Visit.path = "count"
    /\ i' = i + 1
    /\ invoice_count' = Visit.invoice_count
    /\ total_sales' = Visit.total_sales
    /\ online_sales' = Visit.online_sales
    /\ in_store_sales' = Visit.in_store_sales
    /\ coupon_orders' = Visit.coupon_orders
    /\ item_revenue' = Visit.item_revenue
    /\ store_revenue' = Visit.store_revenue
    /\ UNCHANGED <<sales, pc, error, result>>

\* an exception leaves the loop and the handler
RaiseInLoop ==
    /\ pc = "loop"
    /\ i < Len(sales.v)
    /\ Visit.path = "raise"
    /\ pc' = "raised"
    /\ error' = Visit.exc
    /\ UNCHANGED <<sales, i, accs, result>>

\* the loop is over: top items, top store and the returned summary
Return ==
    /\ pc = "loop"
    /\ i = Len(sales.v)
    /\ pc' = "done"
    /\ result' = <<Summary(Acc)>>
    /\ UNCHANGED <<sales, i, accs, error>>

Next ==
    \/ RejectBody
    \/ EnterLoop
    \/ SkipSale
    \/ IgnoreSale
    \/ CountSale
    \/ RaiseInLoop
    \/ Return

Spec == Init /\ [][Next]_vars
SpecParse == InitParse /\ [][Next]_vars

(***************************************************************************)
(* Vocabulary of the properties, defined on the request body alone.        *)
(***************************************************************************)
\* price x quantity of an item, 0 when either does not parse
RevenueOf(item) ==
    LET p == float(Get(item.price, Num(0)))
        q == int(Get(item.quantity, Num(0)))
    IN  IF item.t = "dict" /\ p.exc = "" /\ q.exc = "" /\ ~q.big THEN p.v * q.v ELSE 0

\* the computed total of a sale: the sum of its items' revenues
RECURSIVE TotalOf(_)
TotalOf(items) == IF items = <<>> THEN 0 ELSE RevenueOf(Head(items)) + TotalOf(Tail(items))

\* a sale with a non-empty items field and a strictly positive computed total
CountsAsInvoice(sale) ==
    /\ sale.t = "dict"
    /\ sale.items.t = "list"
    /\ sale.items.v # <<>>
    /\ TotalOf(sale.items.v) > 0

\* the sales of the list, in order, that count as invoices
RECURSIVE OnlyInvoices(_)
OnlyInvoices(ss) ==
    IF ss = <<>> THEN <<>>
    ELSE IF CountsAsInvoice(Head(ss)) THEN <<Head(ss)>> \o OnlyInvoices(Tail(ss))
    ELSE OnlyInvoices(Tail(ss))

\* what the handler has raised or returned
Outcome == [pc |-> pc, error |-> error, result |-> result]
Finished == pc \in {"done", "raised"}

(***************************************************************************)
(* C1: aggregate_sales signals an error to its caller if and only if the   *)
(* decoded body is not a list; for a non-list body nothing is computed,    *)
(* and for every list body it returns a summary without raising.           *)
(***************************************************************************)
C1_ErrorIffNotAList ==
    Finished =>
        /\ (pc = "raised") <=> (sales.t # "list")
        /\ sales.t # "list" => error = "HTTPException" /\ result = <<>> /\ i = 0
        /\ sales.t = "list" => Len(result) = 1

(***************************************************************************)
(* C2: for every list body, invoice_count is the number of sale records    *)
(* with a non-empty items field and a strictly positive computed total;    *)
(* during the loop the same holds of the sales visited so far.             *)
(***************************************************************************)
C2_InvoiceCount ==
    /\ pc \in {"loop", "done"} =>
           invoice_count = Cardinality({k \in 1..i : CountsAsInvoice(sales.v[k])})
    /\ pc = "done" =>
           result[1].invoice_count =
               Cardinality({k \in 1..Len(sales.v) : CountsAsInvoice(sales.v[k])})

\* a returned summary that counts one of two sales, the other having items
\* whose total is not positive
C2_Witness ==
    /\ pc = "done"
    /\ Len(sales.v) = 2
    /\ result[1].invoice_count = 1
    /\ \E k \in 1..2 : /\ sales.v[k].items.v # <<>>
                       /\ TotalOf(sales.v[k].items.v) <= 0

(***************************************************************************)
(* C3: after any prefix of the sales list total_sales equals               *)
(* online_sales + in_store_sales, and each counted sale adds its total to  *)
(* exactly one bucket: online_sales when purchaseMethod is exactly         *)
(* "Online", in_store_sales for every other or missing value; a sale that  *)
(* is not counted changes none of the three.                               *)
(***************************************************************************)
C3_OnlineInStoreSplit ==
    /\ [](total_sales = online_sales + in_store_sales)
    /\ [](pc = "done" =>
            result[1].total_sales = result[1].online_sales + result[1].in_store_sales)
    /\ [][i' = i + 1 =>
            LET sale == sales.v[i + 1]
                total == TotalOf(sale.items.v)
            IN  IF invoice_count' = invoice_count + 1
                THEN /\ total > 0
                     /\ total_sales' = total_sales + total
                     /\ IF sale.purchaseMethod = Str("Online")
                        THEN /\ online_sales' = online_sales + total
                             /\ in_store_sales' = in_store_sales
                        ELSE /\ online_sales' = online_sales
                             /\ in_store_sales' = in_store_sales + total
                ELSE UNCHANGED <<total_sales, online_sales, in_store_sales>>]_vars

\* both buckets received a sale, one of them with the method "online"
C3_Witness ==
    /\ pc = "done"
    /\ online_sales > 0
    /\ in_store_sales > 0
    /\ \E k \in 1..Len(sales.v) :
           CountsAsInvoice(sales.v[k]) /\ sales.v[k].purchaseMethod = Str("online")

(***************************************************************************)
(* C4: a skipped sale (record falsy, items key missing, or computed total  *)
(* <= 0) leaves every accumulator unchanged, and the returned summary is   *)
(* the one of the body with the skipped sales removed.                     *)
(***************************************************************************)
C4_SkippedSaleContributesNothing ==
    [][/\ (i' = i + 1 /\ ~CountsAsInvoice(sales.v[i + 1])) => UNCHANGED accs
       /\ pc' = "done" => Outcome' = aggregate_sales(SalesList(OnlyInvoices(sales.v)))]_vars

(***************************************************************************)
(* C5: when no sale is counted the summary carries the sentinel defaults:  *)
(* top_store "data not available", average_invoice_value 0, top_items      *)
(* empty.                                                                  *)
(***************************************************************************)
C5_EmptyResultDefaults ==
    (pc = "done" /\ result[1].invoice_count = 0) =>
        /\ result[1].top_store = NotAvailable
        /\ result[1].average_invoice_value = 0
        /\ result[1].top_items = <<>>

(***************************************************************************)
(* C6: an item whose price is the decimal wrapper {"$numberDecimal": s}    *)
(* is aggregated as the same item with the plain number s as price: both   *)
(* bodies produce the same outcome.                                        *)
(***************************************************************************)
UnwrapPrice(item) ==
    IF item.t = "dict" /\ item.price.t = "dec" /\ IsNumeric(item.price.s)
    THEN [item EXCEPT !.price = Num(ParseDecimal(item.price.s))]
    ELSE item

\* the body with every decimal-wrapper price replaced by the plain number
Unwrapped(body) ==
    [body EXCEPT !.v = [k \in 1..Len(body.v) |->
        [body.v[k] EXCEPT !.items.v = [j \in 1..Len(body.v[k].items.v) |->
            UnwrapPrice(body.v[k].items.v[j])]]]]

C6_DecimalWrapperAsPlainNumber ==
    Finished => Outcome = aggregate_sales(Unwrapped(sales))

(***************************************************************************)
(* C7: an item with an unparseable price or quantity does not raise and    *)
(* contributes 0 revenue; the other items of its sale and all other sales  *)
(* are accumulated as without it.  Stated of the bodies whose only defect  *)
(* is such items.                                                          *)
(***************************************************************************)
Unparseable(item) ==
    \/ float(Get(item.price, Num(0))).exc # ""
    \/ int(Get(item.quantity, Num(0))).exc # ""

\* a list of sale mappings whose items are lists of item mappings, with
\* usable names, stores and quantities
OnlyNumericDefects(body) ==
    /\ body.t = "list"
    /\ \A k \in 1..Len(body.v) :
        LET sale == body.v[k]
        IN  /\ sale.t = "dict"
            /\ sale.items.t \in {"list", "missing"}
            /\ Hashable(sale.storeLocation)
            /\ \A j \in 1..Len(sale.items.v) :
                LET item == sale.items.v[j]
                IN  /\ item.t = "dict"
                    /\ Hashable(item.name)
                    /\ item.quantity.t # "huge"

RECURSIVE ParseableItems(_)
ParseableItems(items) ==
    IF items = <<>> THEN <<>>
    ELSE IF Unparseable(Head(items)) THEN ParseableItems(Tail(items))
    ELSE <<Head(items)>> \o ParseableItems(Tail(items))

\* the body without its unparseable items
WithoutUnparseable(body) ==
    [body EXCEPT !.v = [k \in 1..Len(body.v) |->
        [body.v[k] EXCEPT !.items.v = ParseableItems(body.v[k].items.v)]]]

C7_UnparseableItemIsHarmless ==
    (Finished /\ OnlyNumericDefects(sales)) =>
        /\ pc = "done"
        /\ Outcome = aggregate_sales(WithoutUnparseable(sales))

(***************************************************************************)
(* C8: top_items is the item names by accumulated revenue descending,      *)
(* ties in first-seen order, truncated to 3: at most 3 entries, and as     *)
(* many as there are distinct item names in the body when these are fewer  *)
(* than 3.                                                                 *)
(***************************************************************************)
\* the item names of the body, "unknown" for an item without one
NamesOf(body) ==
    UNION {{Get(body.v[k].items.v[j].name, Str("unknown")) :
               j \in 1..Len(body.v[k].items.v)} : k \in 1..Len(body.v)}

\* position of a name in the order the names were first accumulated
FirstSeen(name) == CHOOSE j \in 1..Len(item_revenue) : item_revenue[j].k = name

C8_TopItems ==
    pc = "done" =>
        LET top == result[1].top_items
            names == NamesOf(sales)
        IN  /\ Len(top) <= 3
            /\ Cardinality(names) < 3 => Len(top) = Cardinality(names)
            /\ \A j \in 1..Len(top) : top[j].name \in names
            /\ \A j, k \in 1..Len(top) :
                   j < k => \/ top[j].revenue > top[k].revenue
                            \/ /\ top[j].revenue = top[k].revenue
                               /\ FirstSeen(top[j].name) < FirstSeen(top[k].name)
            /\ \A m \in 1..Len(item_revenue) :
                   (\A j \in 1..Len(top) : top[j].name # item_revenue[m].k) =>
                       /\ Len(top) = 3
                       /\ Round2(item_revenue[m].v, 1) <= top[3].revenue

(***************************************************************************)
(* C9: top_store is "data not available" if and only if invoice_count is   *)
(* 0; when invoice_count > 0, top_store is a store key whose accumulated   *)
(* revenue over the counted sales is maximal among all stores.             *)
(***************************************************************************)
\* the store key a sale is filed under
KeyOf(sale) == IF sale.storeLocation = Missing THEN Str("unknown") ELSE sale.storeLocation

\* the revenue of the counted sales of a list filed under a key
RECURSIVE StoreTotal(_, _)
StoreTotal(ss, key) ==
    IF ss = <<>> THEN 0
    ELSE (IF CountsAsInvoice(Head(ss)) /\ KeyOf(Head(ss)) = key
          THEN TotalOf(Head(ss).items.v) ELSE 0) + StoreTotal(Tail(ss), key)

IsTopStore(key) ==
    /\ \E k \in 1..Len(sales.v) : CountsAsInvoice(sales.v[k]) /\ KeyOf(sales.v[k]) = key
    /\ \A k \in 1..Len(sales.v) :
           CountsAsInvoice(sales.v[k]) =>
               StoreTotal(sales.v, KeyOf(sales.v[k])) <= StoreTotal(sales.v, key)

\* C9 as stated
C9_SentinelIffNoInvoice ==
    pc = "done" =>
        /\ (result[1].top_store = NotAvailable) <=> (result[1].invoice_count = 0)
        /\ result[1].invoice_count > 0 => IsTopStore(result[1].top_store)

\* C9 amended: top_store is the sentinel whenever invoice_count is 0; with
\* counted sales it is a store key of maximal revenue, and the sentinel only
\* as the storeLocation of a counted sale
C9_TopStore ==
    pc = "done" =>
        /\ result[1].invoice_count = 0 => result[1].top_store = NotAvailable
        /\ result[1].invoice_count > 0 => IsTopStore(result[1].top_store)
        /\ (result[1].invoice_count > 0 /\ result[1].top_store = NotAvailable) =>
               \E k \in 1..Len(sales.v) :
                   CountsAsInvoice(sales.v[k]) /\ sales.v[k].storeLocation = NotAvailable

\* two stores, and the one seen second has the larger revenue
C9_Witness ==
    /\ pc = "done"
    /\ Len(store_revenue) = 2
    /\ store_revenue[1].v < store_revenue[2].v
    /\ result[1].top_store = store_revenue[2].k

(***************************************************************************)
(* C10: each counted sale's total is added to the store key                *)
(* `storeLocation or "unknown"`: a missing or falsy storeLocation files    *)
(* the sale under "unknown", and top_store is never a null or empty name.  *)
(***************************************************************************)
C10_FalsyStoreIsUnknown ==
    [][/\ (i' = i + 1 /\ invoice_count' = invoice_count + 1) =>
              LET sale == sales.v[i + 1]
                  key == IF Truthy(sale.storeLocation) THEN sale.storeLocation
                         ELSE Str("unknown")
              IN  Lookup(store_revenue', key) =
                      Lookup(store_revenue, key) + TotalOf(sale.items.v)
       /\ pc' = "done" => Truthy(result'[1].top_store)]_vars

====
